---- MODULE Spec2Model ----
(***************************************************************************)
(* Model of the configurable related-list controller, class SlotTest of    *)
(* src/unnamed/part_001: configuration, signature based change detection,  *)
(* asynchronous data loading, client-side pagination, sorting and delete.  *)
(*                                                                         *)
(* The component is single threaded.  An action is one run-to-completion   *)
(* task of the event loop: a lifecycle hook, an event handler, a timer     *)
(* callback, or the continuation of an async function after the remote     *)
(* call it awaited has settled.                                            *)
(***************************************************************************)
EXTENDS Integers, Sequences, FiniteSets, Bags, TLC

VARIABLES
    configJSONString,       \* the raw @api string
    cachedConfigObj,        \* _cachedConfigObj
    lastConfigString,       \* _lastConfigString
    parseCalls,             \* JSON.parse calls since configJSONString was assigned
    configObjResult,        \* what configObj returned last since then
    cfg,                    \* configJSONString and recordId, as the parsed inputs
    isInitialized,
    detectedObjectType,
    allRecords,
    displayedRecords,
    columns,
    isLoading,
    isLoadingMore,
    error,
    hasData,
    hasMoreRecords,
    serverHasMoreRecords,
    currentOffset,
    sortedBy,
    sortDirection,
    canDeleteRecords,
    lastDataSignature,
    lastUISignature,
    isRefreshing,
    cachedUiSignature,      \* _cachedUiSignature
    lastSignatureInputs,    \* _lastSignatureInputs (the input uiSignature compares)
    scrollDebounceTimeout,  \* pending 250 ms debounce timers
    loadingMoreResets,      \* pending 300 ms timers that clear isLoadingMore
    inflight,               \* bag of loadData calls awaiting their remote fetch
    detectPending,          \* getObjectTypeFromRecordId awaited
    pendingDeletes,         \* record ids whose deleteRecord call is awaited
    navigations,            \* NavigationMixin.Navigate calls made (0 or 1 kept)
    cachedConfigGetters,    \* _cachedConfigGetters
    lastConfigJSONForGetters, \* _lastConfigJSONForGetters
    lwr,                    \* the RelatedListLWR component
    rf,                     \* the paginated RelatedFiles component
    cachedRelationshipFieldMap  \* _cachedRelationshipFieldMap

vars == <<configJSONString, cachedConfigObj, lastConfigString, parseCalls,
          configObjResult,
          cfg, isInitialized, detectedObjectType, allRecords, displayedRecords,
          columns, isLoading, isLoadingMore, error, hasData, hasMoreRecords,
          serverHasMoreRecords, currentOffset, sortedBy, sortDirection,
          canDeleteRecords, lastDataSignature, lastUISignature, isRefreshing,
          cachedUiSignature, lastSignatureInputs, scrollDebounceTimeout,
          loadingMoreResets, inflight, detectPending, pendingDeletes,
          navigations, cachedConfigGetters, lastConfigJSONForGetters, lwr,
          rf, cachedRelationshipFieldMap>>

(***************************************************************************)
(* Bounds of the model.                                                    *)
(***************************************************************************)
\* Page size: the configured initialRecordsToLoad (6 when the key is absent).
InitialRecordsToLoad == 2
\* Records the server holds for a standard related list.
StandardTotal == 5
\* Records the server holds for files, articles and email activity.
OtherTotal == 3
\* loadData calls that may await their fetch at the same time.
MaxInFlight == 2
\* currentOffset is not advanced beyond this value.
MaxOffset == 6
\* Rows (from the top of the displayed list) the user may delete.
MaxDeleteRow == 1
\* Pending timers that clear isLoadingMore.
MaxResetTimers == 1

\* Longest list that is sorted, and the largest sort key in it.
MaxSortLen == 4
MaxSortKey == 3
\* JSON.parse calls counted for one value of configJSONString.
MaxParseCalls == 2
LwrPageSize == 2
MaxLwrInFlight == 2
MaxLwrPage == 1
MaxRfFiles == 30
MaxRfInFlight == 2

\* JavaScript null, for a record's sort key.
Null == -1
\* The value of a property whose read throws.
Throws == 99

\* JavaScript truthiness of a value: null, undefined and 0 are falsy.
Truthy(value) == value # Null /\ value # 0

Min(a, b) == IF a < b THEN a ELSE b
Max(a, b) == IF a > b THEN a ELSE b

(***************************************************************************)
(* The remote data source.  A response depends on the list type asked for. *)
(***************************************************************************)
ListTypes == {"standard", "files", "articles", "emails"}

IdBase(type) ==
    CASE type = "standard" -> 0
      [] type = "files"    -> 10
      [] type = "articles" -> 20
      [] OTHER             -> 30

KeyOf(i) ==
    CASE i % 4 = 1 -> 3
      [] i % 4 = 2 -> 1
      [] i % 4 = 3 -> Null
      [] OTHER     -> 2

Total(type) == IF type = "standard" THEN StandardTotal ELSE OtherTotal

\* The records a fetch for list type `type` returns.
Backing(type) ==
    [i \in 1..Total(type) |-> [Id |-> IdBase(type) + i, a |-> KeyOf(i)]]

(***************************************************************************)
(* The component's fields as one record, so that a handler is the          *)
(* composition of the methods it calls.                                    *)
(***************************************************************************)
This ==
    [configJSONString |-> configJSONString,
     cachedConfigObj |-> cachedConfigObj,
     lastConfigString |-> lastConfigString, parseCalls |-> parseCalls,
     configObjResult |-> configObjResult,
     cfg |-> cfg, isInitialized |-> isInitialized,
     detectedObjectType |-> detectedObjectType, allRecords |-> allRecords,
     displayedRecords |-> displayedRecords, columns |-> columns,
     isLoading |-> isLoading, isLoadingMore |-> isLoadingMore, error |-> error,
     hasData |-> hasData, hasMoreRecords |-> hasMoreRecords,
     serverHasMoreRecords |-> serverHasMoreRecords,
     currentOffset |-> currentOffset, sortedBy |-> sortedBy,
     sortDirection |-> sortDirection, canDeleteRecords |-> canDeleteRecords,
     lastDataSignature |-> lastDataSignature,
     lastUISignature |-> lastUISignature, isRefreshing |-> isRefreshing,
     cachedUiSignature |-> cachedUiSignature,
     lastSignatureInputs |-> lastSignatureInputs,
     scrollDebounceTimeout |-> scrollDebounceTimeout,
     loadingMoreResets |-> loadingMoreResets, inflight |-> inflight,
     detectPending |-> detectPending, pendingDeletes |-> pendingDeletes,
     navigations |-> navigations,
     cachedConfigGetters |-> cachedConfigGetters,
     lastConfigJSONForGetters |-> lastConfigJSONForGetters, lwr |-> lwr,
     rf |-> rf, cachedRelationshipFieldMap |-> cachedRelationshipFieldMap]

\* The next state is the record s.
Commit(s) ==
    /\ configJSONString' = s.configJSONString
    /\ cachedConfigObj' = s.cachedConfigObj
    /\ lastConfigString' = s.lastConfigString
    /\ parseCalls' = s.parseCalls
    /\ configObjResult' = s.configObjResult
    /\ cfg' = s.cfg
    /\ isInitialized' = s.isInitialized
    /\ detectedObjectType' = s.detectedObjectType
    /\ allRecords' = s.allRecords
    /\ displayedRecords' = s.displayedRecords
    /\ columns' = s.columns
    /\ isLoading' = s.isLoading
    /\ isLoadingMore' = s.isLoadingMore
    /\ error' = s.error
    /\ hasData' = s.hasData
    /\ hasMoreRecords' = s.hasMoreRecords
    /\ serverHasMoreRecords' = s.serverHasMoreRecords
    /\ currentOffset' = s.currentOffset
    /\ sortedBy' = s.sortedBy
    /\ sortDirection' = s.sortDirection
    /\ canDeleteRecords' = s.canDeleteRecords
    /\ lastDataSignature' = s.lastDataSignature
    /\ lastUISignature' = s.lastUISignature
    /\ isRefreshing' = s.isRefreshing
    /\ cachedUiSignature' = s.cachedUiSignature
    /\ lastSignatureInputs' = s.lastSignatureInputs
    /\ scrollDebounceTimeout' = s.scrollDebounceTimeout
    /\ loadingMoreResets' = s.loadingMoreResets
    /\ inflight' = s.inflight
    /\ detectPending' = s.detectPending
    /\ pendingDeletes' = s.pendingDeletes
    /\ navigations' = s.navigations
    /\ cachedConfigGetters' = s.cachedConfigGetters
    /\ lastConfigJSONForGetters' = s.lastConfigJSONForGetters
    /\ lwr' = s.lwr
    /\ rf' = s.rf
    /\ cachedRelationshipFieldMap' = s.cachedRelationshipFieldMap

\* The current state is the record s.
StateIs(s) ==
    /\ configJSONString = s.configJSONString
    /\ cachedConfigObj = s.cachedConfigObj
    /\ lastConfigString = s.lastConfigString
    /\ parseCalls = s.parseCalls
    /\ configObjResult = s.configObjResult
    /\ cfg = s.cfg
    /\ isInitialized = s.isInitialized
    /\ detectedObjectType = s.detectedObjectType
    /\ allRecords = s.allRecords
    /\ displayedRecords = s.displayedRecords
    /\ columns = s.columns
    /\ isLoading = s.isLoading
    /\ isLoadingMore = s.isLoadingMore
    /\ error = s.error
    /\ hasData = s.hasData
    /\ hasMoreRecords = s.hasMoreRecords
    /\ serverHasMoreRecords = s.serverHasMoreRecords
    /\ currentOffset = s.currentOffset
    /\ sortedBy = s.sortedBy
    /\ sortDirection = s.sortDirection
    /\ canDeleteRecords = s.canDeleteRecords
    /\ lastDataSignature = s.lastDataSignature
    /\ lastUISignature = s.lastUISignature
    /\ isRefreshing = s.isRefreshing
    /\ cachedUiSignature = s.cachedUiSignature
    /\ lastSignatureInputs = s.lastSignatureInputs
    /\ scrollDebounceTimeout = s.scrollDebounceTimeout
    /\ loadingMoreResets = s.loadingMoreResets
    /\ inflight = s.inflight
    /\ detectPending = s.detectPending
    /\ pendingDeletes = s.pendingDeletes
    /\ navigations = s.navigations
    /\ cachedConfigGetters = s.cachedConfigGetters
    /\ lastConfigJSONForGetters = s.lastConfigJSONForGetters
    /\ lwr = s.lwr
    /\ rf = s.rf
    /\ cachedRelationshipFieldMap = s.cachedRelationshipFieldMap

(***************************************************************************)
(* The RelatedListLWR component: its fields are the fields of lwr.         *)
(***************************************************************************)
\* The rows the server holds for the parent record, as given to
\* getRelatedRecords.
LwrRows ==
    <<[Id |-> 1, Name |-> 2, Status |-> 1],
      [Id |-> 2, Name |-> 1, Status |-> 3],
      [Id |-> 3, Name |-> 3, Status |-> 2]>>

\* The apiNames of objectConfig.columns.
LwrColumns == <<"Name", "Status">>

\* The Apex method getRelatedRecords: the rows ordered by sortField in
\* sortDirection.
getRelatedRecords(field, direction) ==
    IF direction = "ASC"
    THEN SortSeq(LwrRows, LAMBDA x, y : x[field] < y[field])
    ELSE SortSeq(LwrRows, LAMBDA x, y : x[field] > y[field])

\* The component as constructed, with recordLimit = LwrPageSize.
LwrFresh ==
    [records |-> <<>>, displayedRecords |-> <<>>, isLoading |-> FALSE,
     hasError |-> FALSE, objectConfig |-> "null", sortField |-> "",
     sortDirection |-> "ASC", actualIconName |-> "standard:record",
     currentPage |-> 0, pageSize |-> 6, connected |-> FALSE,
     iconPending |-> FALSE, configPending |-> FALSE, requests |-> EmptyBag]

lwrUpdateDisplayedRecords(c) ==
    LET endIndex == IF c.currentPage = 0 THEN c.pageSize
                    ELSE (c.currentPage + 1) * c.pageSize
    IN  [c EXCEPT !.displayedRecords =
                      SubSeq(c.records, 1, Min(endIndex, Len(c.records)))]

\* loadRecords up to the await of getRelatedRecords: the request carries the
\* sort field and direction of the moment of the call.
lwrLoadRecords(c) ==
    IF c.objectConfig = "null"
    THEN c
    ELSE [c EXCEPT !.isLoading = TRUE,
                   !.requests = @ (+) SetToBag({[sortField |-> c.sortField,
                                                 sortDirection |->
                                                     c.sortDirection]})]

lwrHandleError(c) == [c EXCEPT !.hasError = TRUE]

\* loadConfiguration up to the await of getObjectConfiguration (recordId is
\* set).
lwrLoadConfiguration(c) ==
    [c EXCEPT !.isLoading = TRUE, !.hasError = FALSE, !.configPending = TRUE]

lwrHandleSort(c, fieldName) ==
    LET c1 == IF c.sortField = fieldName
              THEN [c EXCEPT !.sortDirection =
                                 IF @ = "ASC" THEN "DESC" ELSE "ASC"]
              ELSE [c EXCEPT !.sortField = fieldName,
                             !.sortDirection = "ASC"]
    IN  lwrLoadRecords(c1)

lwrHandleViewMore(c) ==
    lwrUpdateDisplayedRecords([c EXCEPT !.currentPage = @ + 1])

(***************************************************************************)
(* The paginated RelatedFiles component: its fields are the fields of rf.  *)
(***************************************************************************)
DefaultRecordLimit == 8
InitialLoadBuffer == 20

\* parseInt(recordLimit, 10), or 8 when that is no positive number.
computedRecordLimit(c) ==
    IF c.recordLimit > 0 THEN c.recordLimit ELSE DefaultRecordLimit

\* The component as constructed, with the recordId and recordLimit of its
\* owner.
RfFresh ==
    [recordId |-> "001x", recordLimit |-> 0, files |-> <<>>,
     isLoading |-> FALSE, hasError |-> FALSE, currentDisplayCount |-> 0,
     hasMoreFilesToLoad |-> FALSE, connected |-> FALSE,
     requests |-> EmptyBag]

\* The Apex method getFiles: the first limitCount of the total files the
\* server holds, by their ids.
GetFiles(total, limitCount) == [i \in 1..Min(total, limitCount) |-> i]

\* loadFiles up to the await of getFiles.
rfLoadFiles(c, loadMore) ==
    IF c.recordId = "null"
    THEN c
    ELSE LET requestLimit ==
                 IF loadMore THEN Len(c.files) + computedRecordLimit(c)
                 ELSE Max(computedRecordLimit(c) * 2, InitialLoadBuffer)
         IN  [c EXCEPT !.isLoading = TRUE, !.hasError = FALSE,
                       !.requests = @ (+) SetToBag({[loadMore |-> loadMore,
                                                     requestLimit |->
                                                         requestLimit]})]

\* loadFiles after getFiles returned rawFiles for the request req.
rfFilesLoaded(c, req, rawFiles) ==
    [c EXCEPT !.files = rawFiles,
              !.currentDisplayCount =
                  IF req.loadMore
                  THEN Min(@ + computedRecordLimit(c), Len(rawFiles))
                  ELSE Min(computedRecordLimit(c), Len(rawFiles)),
              !.hasMoreFilesToLoad = Len(rawFiles) = req.requestLimit,
              !.isLoading = FALSE]

\* handleViewMore that shows another page without looking at files.length.
rfHandleViewMoreUnclamped(c) ==
    IF Len(c.files) > c.currentDisplayCount
    THEN [c EXCEPT !.currentDisplayCount = @ + computedRecordLimit(c)]
    ELSE IF c.hasMoreFilesToLoad THEN rfLoadFiles(c, TRUE) ELSE c

\* handleViewMore together with the microtask that calls loadFiles(true).
rfHandleViewMore(c) ==
    IF Len(c.files) > c.currentDisplayCount
    THEN [c EXCEPT !.currentDisplayCount =
                       Min(@ + computedRecordLimit(c), Len(c.files))]
    ELSE IF c.hasMoreFilesToLoad THEN rfLoadFiles(c, TRUE) ELSE c

(***************************************************************************)
(* The configuration cache: configObj parses configJSONString and keeps    *)
(* the result.  A JSON value is modelled by its kind and, for an object,   *)
(* its entries.                                                            *)
(***************************************************************************)
NullValue == [kind |-> "null", entries |-> {}]

\* No value: configObj has not been read.
NotRead == [kind |-> "none", entries |-> {}]

EmptyObject == [kind |-> "object", entries |-> {}]

ObjectOf(entries) == [kind |-> "object", entries |-> entries]

\* Strings the owner assigns to configJSONString: well-formed objects, the
\* empty string and two malformed texts.
ConfigStrings ==
    {"{}", "{\"relatedListType\":\"files\"}",
     "{\"relatedListType\":\"emails\"}",
     "{\"relatedListType\":\"articles\"}",
     "{\"initialRecordsToLoad\":10}",
     "{\"initialRecordsToLoad\":10,\"maxRecordsToFetch\":20}",
     "", "{bad", "{\"a\":"}

\* JSON.parse: ok is FALSE when it throws a SyntaxError.
JsonParse(raw) ==
    CASE raw = "{}" -> [ok |-> TRUE, value |-> EmptyObject]
      [] raw = "{\"relatedListType\":\"files\"}" ->
             [ok |-> TRUE,
              value |-> ObjectOf({<<"relatedListType", "files">>})]
      [] raw = "{\"relatedListType\":\"emails\"}" ->
             [ok |-> TRUE,
              value |-> ObjectOf({<<"relatedListType", "emails">>})]
      [] raw = "{\"relatedListType\":\"articles\"}" ->
             [ok |-> TRUE,
              value |-> ObjectOf({<<"relatedListType", "articles">>})]
      [] raw = "{\"initialRecordsToLoad\":10}" ->
             [ok |-> TRUE,
              value |-> ObjectOf({<<"initialRecordsToLoad", 10>>})]
      [] raw = "{\"initialRecordsToLoad\":10,\"maxRecordsToFetch\":20}" ->
             [ok |-> TRUE,
              value |-> ObjectOf({<<"initialRecordsToLoad", 10>>,
                                  <<"maxRecordsToFetch", 20>>})]
      [] OTHER -> [ok |-> FALSE, value |-> NullValue]

\* The configObj getter: the component after the read; the value returned
\* is its cachedConfigObj.
configObj(s) ==
    IF s.configJSONString # s.lastConfigString
    THEN LET parsed == JsonParse(s.configJSONString)
         IN  IF parsed.ok
             THEN [s EXCEPT !.cachedConfigObj = parsed.value,
                            !.lastConfigString = s.configJSONString,
                            !.parseCalls = @ + 1]
             ELSE [s EXCEPT !.cachedConfigObj = EmptyObject,
                            !.parseCalls = @ + 1]
    ELSE s

\* The owner assigns another string to configJSONString.
SetConfigJSONString(raw) ==
    /\ raw # configJSONString
    /\ Commit([This EXCEPT !.configJSONString = raw, !.parseCalls = 0,
                            !.configObjResult = NotRead])

\* Any getter of the component reads configObj.
ReadConfigObj ==
    /\ configObj(This).parseCalls <= MaxParseCalls
    /\ Commit([configObj(This) EXCEPT
                   !.configObjResult = configObj(This).cachedConfigObj])

(***************************************************************************)
(* The cached configuration getters.                                       *)
(***************************************************************************)
DefaultInitialRecordsToLoad == 6
DefaultMaxRecordsToFetch == 50

\* Reads of configObj one _updateAllConfigGetterCaches call makes.
ConfigGetterReads == 11

\* _cachedConfigGetters as constructed: every getter null.
NoConfigGetters ==
    [initialRecordsToLoad |-> Null, maxRecordsToFetch |-> Null]

\* obj[key] || default
ValueOr(obj, key, default) ==
    IF \E e \in obj.entries : e[1] = key /\ Truthy(e[2])
    THEN (CHOOSE e \in obj.entries : e[1] = key)[2]
    ELSE default

\* The component after n reads of configObj.
RECURSIVE configObjReads(_, _)
configObjReads(s, n) ==
    IF n = 0 THEN s ELSE configObjReads(configObj(s), n - 1)

\* _updateAllConfigGetterCaches: every assignment reads configObj; the first
\* throws a TypeError when configObj returns null and nothing is assigned.
\* Of the eleven getters the two numeric ones are kept.
updateAllConfigGetterCaches(s) ==
    IF configObj(s).cachedConfigObj.kind # "object"
    THEN configObj(s)
    ELSE LET r == configObjReads(s, ConfigGetterReads)
         IN  [r EXCEPT
                 !.cachedConfigGetters =
                     [initialRecordsToLoad |->
                          ValueOr(r.cachedConfigObj, "initialRecordsToLoad",
                                  DefaultInitialRecordsToLoad),
                      maxRecordsToFetch |->
                          ValueOr(r.cachedConfigObj, "maxRecordsToFetch",
                                  DefaultMaxRecordsToFetch)],
                 !.lastConfigJSONForGetters = r.configJSONString]

\* The initialRecordsToLoad getter: the component after the read; the value
\* returned is its cachedConfigGetters.initialRecordsToLoad.
initialRecordsToLoad(s) ==
    IF s.configJSONString # s.lastConfigJSONForGetters
    THEN updateAllConfigGetterCaches(s)
    ELSE s

\* The maxRecordsToFetch getter, likewise.
maxRecordsToFetch(s) ==
    IF s.configJSONString # s.lastConfigJSONForGetters
    THEN updateAllConfigGetterCaches(s)
    ELSE s

\* A method of the component reads the initialRecordsToLoad getter.
ReadInitialRecordsToLoad ==
    /\ configJSONString \in ConfigStrings
    /\ Commit(initialRecordsToLoad(This))

\* A method of the component reads the maxRecordsToFetch getter.
ReadMaxRecordsToFetch ==
    /\ configJSONString \in ConfigStrings
    /\ Commit(maxRecordsToFetch(This))

(***************************************************************************)
(* Configuration getters.                                                  *)
(***************************************************************************)
NoRecordId == "null"

currentRecordId(s) == s.cfg.recordId

relatedListType(s) == s.cfg.relatedListType

hasValidConfiguration(s) ==
    IF relatedListType(s) \in {"articles", "emails", "files"}
    THEN currentRecordId(s) # NoRecordId
    ELSE /\ s.cfg.relatedListName # ""
         /\ currentRecordId(s) # NoRecordId
         /\ s.detectedObjectType # "null"

shouldShowDeleteAction(s) ==
    /\ s.cfg.enableRecordDeletion
    /\ s.canDeleteRecords
    /\ relatedListType(s) = "standard"

(***************************************************************************)
(* Signatures.  A signature is the JSON text of an object; it is modelled  *)
(* as that object, a key the text omits holding "~".                       *)
(***************************************************************************)
NoSignature ==
    [mode |-> "", recordId |-> "~", relatedListName |-> "~",
     relationshipField |-> "~", enabledFields |-> "~",
     detectedObjectType |-> "~"]

dataSignature(s) ==
    IF relatedListType(s) = "articles"
    THEN [mode |-> "articles", recordId |-> currentRecordId(s),
          relatedListName |-> "~", relationshipField |-> "~",
          enabledFields |-> "~", detectedObjectType |-> "~"]
    ELSE IF relatedListType(s) = "files"
    THEN [mode |-> "files", recordId |-> currentRecordId(s),
          relatedListName |-> "~", relationshipField |-> "~",
          enabledFields |-> "~", detectedObjectType |-> "~"]
    ELSE [mode |-> "arl", recordId |-> currentRecordId(s),
          relatedListName |-> s.cfg.relatedListName,
          relationshipField |-> s.cfg.relationshipField,
          enabledFields |-> s.cfg.enabledFields,
          detectedObjectType |-> s.detectedObjectType]

relatedListLabel(s) ==
    LET recordCount == IF s.hasData THEN Len(s.allRecords) ELSE 0
    IN  IF s.hasData /\ recordCount > 0
        THEN IF s.hasMoreRecords /\ recordCount >= InitialRecordsToLoad
             THEN [text |-> "plus", n |-> InitialRecordsToLoad]
             ELSE [text |-> "count", n |-> recordCount]
        ELSE [text |-> "base", n |-> 0]

NoUiSignature ==
    [fieldNames |-> "~", viewAllUrl |-> "~",
     relatedListLabel |-> [text |-> "~", n |-> 0]]

\* The uiSignature getter: the component after the read; the value read is
\* its cachedUiSignature.
uiSignature(s) ==
    IF \/ s.cfg.fieldNames # s.lastSignatureInputs.fieldNames
       \/ s.cachedUiSignature = NoUiSignature
    THEN [s EXCEPT
            !.lastSignatureInputs = [fieldNames |-> s.cfg.fieldNames],
            !.cachedUiSignature =
                [fieldNames |-> s.cfg.fieldNames,
                 viewAllUrl |-> s.cfg.viewAllUrl,
                 relatedListLabel |-> relatedListLabel(s)]]
    ELSE s

shouldReloadData(s) == dataSignature(s) # s.lastDataSignature

(***************************************************************************)
(* Shared utility methods.                                                 *)
(***************************************************************************)
NoColumns == [kind |-> "none", labels |-> "", deleteAction |-> FALSE]

clearSort(s) == [s EXCEPT !.sortedBy = "", !.sortDirection = "asc"]

\* _cachedRelationshipFieldMap: null, or the array of mappings (which holds
\* one mapping per dotted key, so the set of them).
NoFieldMap == [cached |-> FALSE, map |-> {}]

clearData(s) ==
    clearSort([s EXCEPT !.allRecords = <<>>,
                        !.displayedRecords = <<>>,
                        !.columns = NoColumns,
                        !.hasData = FALSE,
                        !.hasMoreRecords = FALSE,
                        !.serverHasMoreRecords = FALSE,
                        !.currentOffset = 0,
                        !.cachedRelationshipFieldMap = NoFieldMap])

updateDisplayedRecords(s) ==
    LET endIndex == s.currentOffset + InitialRecordsToLoad
        shown == SubSeq(s.allRecords, 1, Min(endIndex, Len(s.allRecords)))
    IN  [s EXCEPT !.displayedRecords = shown,
                  !.hasData = Len(shown) > 0,
                  !.hasMoreRecords =
                      IF endIndex < Len(s.allRecords) THEN TRUE
                      ELSE IF s.serverHasMoreRecords THEN TRUE
                      ELSE FALSE]

(***************************************************************************)
(* Data loading.                                                           *)
(***************************************************************************)
NoError == "null"

\* error.body?.message || error.message || 'Unknown error occurred'
ErrorMessage(payload) ==
    IF payload # "" THEN payload ELSE "Unknown error occurred"

\* The loader loadData routes to, fixed when the call is made.
LoaderOf(s) ==
    IF relatedListType(s) = "articles" THEN "articles"
    ELSE IF relatedListType(s) = "files" THEN "files"
    ELSE IF relatedListType(s) = "emails" THEN "emails"
    ELSE "standard"

\* loadData up to the await of its remote fetch.  `refresh` tells that the
\* call is the one handleRefresh chains its finally() on.
loadData(s, refresh) ==
    IF ~hasValidConfiguration(s)
    THEN [clearData(s) EXCEPT !.isRefreshing = IF refresh THEN FALSE ELSE @]
    ELSE LET s1 == [s EXCEPT !.isLoading = TRUE, !.error = NoError]
             \* loadRelatedActivity resets currentOffset before it awaits
             s2 == IF LoaderOf(s) = "emails"
                   THEN [s1 EXCEPT !.currentOffset = 0] ELSE s1
             call == [loader |-> LoaderOf(s), sig |-> dataSignature(s),
                      refresh |-> refresh]
         IN  [s2 EXCEPT !.inflight = @ (+) SetToBag({call})]

(***************************************************************************)
(* Relationship fields of a standard list.  The server's records name a    *)
(* field of a related object by a dotted key; the data table reads it from *)
(* a key without a dot.                                                    *)
(***************************************************************************)
\* key.split('.') of the keys the server's records carry.
SplitKey(key) ==
    CASE key = "Owner.Name"         -> <<"Owner", "Name">>
      [] key = "Account.Name"       -> <<"Account", "Name">>
      [] key = "Owner.Manager.Name" -> <<"Owner", "Manager", "Name">>
      [] OTHER                      -> <<key>>

\* key.includes('.')
IncludesDot(key) == Len(SplitKey(key)) > 1

\* fieldApiName.replace('.', '_') replaces the first dot only.
getFlattenedFieldName(fieldApiName) ==
    CASE fieldApiName = "Owner.Name"         -> "Owner_Name"
      [] fieldApiName = "Account.Name"       -> "Account_Name"
      [] fieldApiName = "Owner.Manager.Name" -> "Owner_Manager.Name"
      [] OTHER                               -> fieldApiName

\* The mapping flattenRelationshipFieldsForARL builds only when none is
\* cached: an empty array is a cached mapping too.
relationshipFieldMap(cache, sampleRecord) ==
    IF ~cache.cached
    THEN [cached |-> TRUE,
          map |-> {[originalKey |-> key,
                    relationshipName |-> SplitKey(key)[1],
                    fieldName |-> SplitKey(key)[2],
                    flattenedFieldName |-> getFlattenedFieldName(key)] :
                       key \in {k \in DOMAIN sampleRecord : IncludesDot(k)}}]
    ELSE cache

\* The record after flattenRelationshipFieldsForARL has applied the cached
\* mappings to it: the nested value, or null where the record has none.
flattenRelationshipFieldsForARL(cache, record) ==
    LET flattened == {mapping.flattenedFieldName : mapping \in cache.map}
        MappingOf(name) ==
            CHOOSE mapping \in cache.map : mapping.flattenedFieldName = name
        ValueOf(mapping) ==
            IF /\ mapping.relationshipName \in DOMAIN record
               /\ mapping.fieldName
                      \in DOMAIN record[mapping.relationshipName]
            THEN record[mapping.relationshipName][mapping.fieldName]
            ELSE Null
    IN  IF flattened = {}
        THEN record
        ELSE [name \in DOMAIN record \cup flattened |->
                 IF name \in flattened THEN ValueOf(MappingOf(name))
                 ELSE record[name]]

\* processARLRecords, assigned to allRecords: the first record of the
\* response is the sample of every call of the flattening.
processARLRecords(s, records) ==
    LET cache == IF Len(records) = 0 THEN s.cachedRelationshipFieldMap
                 ELSE relationshipFieldMap(s.cachedRelationshipFieldMap,
                                           records[1])
    IN  [s EXCEPT !.cachedRelationshipFieldMap = cache,
                  !.allRecords =
                      [i \in 1..Len(records) |->
                          flattenRelationshipFieldsForARL(cache, records[i])]]

buildColumnsFromARL(s) ==
    [kind |-> "arl", labels |-> s.cfg.fieldNames,
     deleteAction |-> shouldShowDeleteAction(s)]

checkDeletePermission(s, canDelete) ==
    IF s.detectedObjectType = "null" \/ ~s.cfg.enableRecordDeletion
    THEN [s EXCEPT !.canDeleteRecords = FALSE]
    ELSE [s EXCEPT !.canDeleteRecords = canDelete]

\* Each loader after its fetch has settled: the component it leaves and the
\* message of the error it throws ("" when it returns normally).
loadDataWithARL(s, resp) ==
    IF resp.fields
    THEN LET s1 == checkDeletePermission(s, resp.canDelete)
             s2 == [s1 EXCEPT !.columns = buildColumnsFromARL(s1)]
             s3 == [processARLRecords(s2, resp.records) EXCEPT
                              !.serverHasMoreRecords = resp.more,
                              !.currentOffset = 0]
             s4 == updateDisplayedRecords(s3)
         IN  [this |-> [s4 EXCEPT !.hasData = Len(s4.allRecords) > 0],
              thrown |-> ""]
    ELSE [this |-> s,
          thrown |-> "No field information returned from Related List API"]

loadArticles(s, resp) ==
    LET s1 == [s EXCEPT !.columns = [kind |-> "articles", labels |-> "",
                                     deleteAction |-> FALSE],
                        !.allRecords = resp.records,
                        !.currentOffset = 0]
    IN  [this |-> updateDisplayedRecords(s1), thrown |-> ""]

loadFiles(s, resp) ==
    LET s1 == [s EXCEPT !.columns = [kind |-> "files", labels |-> "",
                                     deleteAction |-> FALSE],
                        !.allRecords = resp.records,
                        !.currentOffset = 0]
    IN  [this |-> updateDisplayedRecords(s1), thrown |-> ""]

loadRelatedActivity(s, resp) ==
    LET s1 == [s EXCEPT !.columns = [kind |-> "emails", labels |-> "",
                                     deleteAction |-> FALSE],
                        !.allRecords = resp.records]
    IN  [this |-> [s1 EXCEPT !.hasData = Len(s1.allRecords) > 0,
                             !.displayedRecords = s1.allRecords],
         thrown |-> ""]

\* A loader whose fetch was rejected with an error carrying `payload`:
\* loadRelatedActivity catches the error and shows a toast, the others
\* rethrow it.
LoaderRejected(s, loader, payload) ==
    IF loader = "emails"
    THEN [this |-> s, thrown |-> ""]
    ELSE [this |-> s, thrown |-> ErrorMessage(payload)]

LoaderResolved(s, loader, resp) ==
    IF loader = "articles" THEN loadArticles(s, resp)
    ELSE IF loader = "files" THEN loadFiles(s, resp)
    ELSE IF loader = "emails" THEN loadRelatedActivity(s, resp)
    ELSE loadDataWithARL(s, resp)

\* loadData after the loader it awaited has finished with `r`, and the
\* finally() handleRefresh chained on it.
\* The settlement of loadData when handleRefresh chains then() in place of
\* finally(): isRefreshing is cleared by a load that succeeded only.
loadDataSettledThenOnly(r, call) ==
    LET s1 == IF r.thrown = ""
              THEN LET a == [r.this EXCEPT
                               !.lastDataSignature = dataSignature(r.this)]
                       b == uiSignature(a)
                   IN  [b EXCEPT !.lastUISignature = b.cachedUiSignature]
              ELSE clearData([r.this EXCEPT !.error = r.thrown])
        s2 == [s1 EXCEPT !.isLoading = FALSE]
    IN  [s2 EXCEPT !.inflight = @ (-) SetToBag({call}),
                   !.isRefreshing =
                       IF call.refresh /\ r.thrown = "" THEN FALSE ELSE @]

loadDataSettled(r, call) ==
    LET s1 == IF r.thrown = ""
              THEN LET a == [r.this EXCEPT
                               !.lastDataSignature = dataSignature(r.this)]
                       b == uiSignature(a)
                   IN  [b EXCEPT !.lastUISignature = b.cachedUiSignature]
              ELSE clearData([r.this EXCEPT !.error = r.thrown])
        s2 == [s1 EXCEPT !.isLoading = FALSE]
    IN  [s2 EXCEPT !.inflight = @ (-) SetToBag({call}),
                   !.isRefreshing = IF call.refresh THEN FALSE ELSE @]

\* What a fulfilled fetch of a loader can return: the server's records, for
\* a standard list with or without field information, with the
\* hasMoreRecords flag drawn from `mores` and the answer of canDeleteObject
\* drawn from `deletes`.
Responses(loader, mores, deletes) ==
    IF loader = "standard"
    THEN {[fields |-> TRUE, records |-> Backing("standard"), more |-> m,
           canDelete |-> c] : m \in mores, c \in deletes}
         \cup {[fields |-> FALSE, records |-> <<>>, more |-> FALSE,
                canDelete |-> FALSE]}
    ELSE {[fields |-> TRUE, records |-> Backing(loader), more |-> FALSE,
           canDelete |-> FALSE]}

ErrorPayloads == {"Server error", ""}

(***************************************************************************)
(* Lifecycle hooks and the owner's configuration changes.                  *)
(***************************************************************************)
Configs(recordIds, types, fieldNames, urls, deletion) ==
    [recordId : recordIds, relatedListType : types,
     relatedListName : {"Cases"}, relationshipField : {""},
     enabledFields : {""}, fieldNames : fieldNames,
     viewAllUrl : urls, enableRecordDeletion : deletion]

\* The owner of the component assigns configJSONString or recordId.
SetConfig(c) ==
    /\ c # cfg
    /\ Commit([This EXCEPT !.cfg = c])

detectObjectTypeAndLoadData(s) ==
    IF currentRecordId(s) = NoRecordId
    THEN clearData(s)
    ELSE [s EXCEPT !.detectPending = TRUE]

ConnectedCallback ==
    /\ ~isInitialized
    /\ Commit(detectObjectTypeAndLoadData([This EXCEPT !.isInitialized = TRUE]))

\* getObjectTypeFromRecordId has settled: with an object type, with no
\* object type ("null"), or with an error ("error").
DetectSettled(result) ==
    /\ detectPending
    /\ LET s == [This EXCEPT !.detectPending = FALSE]
       IN  IF result = "error"
           THEN Commit([s EXCEPT !.error =
                    "Could not determine object type from record ID"])
           ELSE LET s1 == [s EXCEPT !.detectedObjectType = result]
                IN  IF result # "null"
                    THEN Commit(loadData(
                            [s1 EXCEPT !.lastDataSignature = NoSignature],
                            FALSE))
                    ELSE Commit([s1 EXCEPT !.error =
                            "Could not determine object type from record ID"])

rebuildColumnsOnly(s) ==
    IF ~s.hasData \/ Len(s.allRecords) = 0
    THEN s
    ELSE loadData(s, FALSE)

\* renderedCallback taking the column path after the data path.
renderedCallbackBothPaths(s) ==
    IF ~s.isInitialized THEN s
    ELSE IF s.isRefreshing THEN s
    ELSE LET s0 == IF shouldReloadData(s) THEN loadData(s, FALSE) ELSE s
             s1 == uiSignature(s0)
         IN  IF s1.cachedUiSignature # s1.lastUISignature /\ s1.hasData
             THEN rebuildColumnsOnly(s1)
             ELSE s1

renderedCallback(s) ==
    IF ~s.isInitialized THEN s
    ELSE IF s.isRefreshing THEN s
    ELSE IF shouldReloadData(s) THEN loadData(s, FALSE)
    ELSE LET s1 == uiSignature(s)
         IN  IF s1.cachedUiSignature # s1.lastUISignature /\ s1.hasData
             THEN rebuildColumnsOnly(s1)
             ELSE s1

RenderedCallback ==
    /\ BagCardinality(renderedCallback(This).inflight) <= MaxInFlight
    /\ Commit(renderedCallback(This))

FetchResolved(call, resp) ==
    /\ BagIn(call, inflight)
    /\ Commit(loadDataSettled(LoaderResolved(This, call.loader, resp), call))

FetchRejected(call, payload) ==
    /\ BagIn(call, inflight)
    /\ Commit(loadDataSettled(LoaderRejected(This, call.loader, payload), call))

handleRefresh(s) ==
    LET s1 == clearData([s EXCEPT !.isRefreshing = TRUE])
        s2 == [s1 EXCEPT !.lastDataSignature = NoSignature,
                         !.lastUISignature = NoUiSignature,
                         !.cachedUiSignature = NoUiSignature]
    IN  loadData(s2, TRUE)

HandleRefresh ==
    /\ isInitialized
    /\ BagCardinality(inflight) < MaxInFlight
    /\ Commit(handleRefresh(This))

(***************************************************************************)
(* Sorting.                                                                *)
(***************************************************************************)
\* fieldName.split('.') of the field names that are sorted by: the container
\* and the nested field of a dotted name.
SplitField(fieldName) ==
    IF fieldName = "Owner.b" THEN <<"Owner", "b">> ELSE <<fieldName>>

\* The try block of getFieldValue: the value it returns, or thrown when the
\* read of the property throws.  (The recordUrl fallback is for the url
\* column, which is none of the fields sorted by here.)
TryGetFieldValue(record, fieldName) ==
    IF fieldName \in DOMAIN record
    THEN IF record[fieldName] = Throws
         THEN [thrown |-> TRUE, value |-> Null]
         ELSE [thrown |-> FALSE, value |-> record[fieldName]]
    ELSE LET path == SplitField(fieldName)
         IN  IF /\ Len(path) > 1
                /\ path[1] \in DOMAIN record
                /\ path[2] \in DOMAIN record[path[1]]
                /\ Truthy(record[path[1]][path[2]])
             THEN [thrown |-> FALSE, value |-> record[path[1]][path[2]]]
             ELSE [thrown |-> FALSE, value |-> Null]

\* getFieldValue without its catch: the throwing property's value is the key.
getFieldValueWithoutCatch(record, fieldName) ==
    IF fieldName \in DOMAIN record THEN record[fieldName] ELSE Null

\* The catch of getFieldValue returns null.
getFieldValue(record, fieldName) ==
    LET tried == TryGetFieldValue(record, fieldName)
    IN  IF tried.thrown THEN Null ELSE tried.value

\* The comparator with null values after the others when ascending.
CompareNullsLast(aVal, bVal, direction) ==
    IF aVal = Null /\ bVal = Null THEN 0
    ELSE IF aVal = Null THEN (IF direction = "asc" THEN 1 ELSE -1)
    ELSE IF bVal = Null THEN (IF direction = "asc" THEN -1 ELSE 1)
    ELSE LET result == IF aVal < bVal THEN -1
                       ELSE IF aVal > bVal THEN 1 ELSE 0
         IN  IF direction = "asc" THEN result ELSE -result

\* The comparator of sortData over two pre-extracted values.
Compare(aVal, bVal, direction) ==
    IF aVal = Null /\ bVal = Null THEN 0
    ELSE IF aVal = Null THEN (IF direction = "asc" THEN -1 ELSE 1)
    ELSE IF bVal = Null THEN (IF direction = "asc" THEN 1 ELSE -1)
    ELSE LET result == IF aVal < bVal THEN -1
                       ELSE IF aVal > bVal THEN 1 ELSE 0
         IN  IF direction = "asc" THEN result ELSE -result

\* Array.prototype.sort is stable: an item goes behind the items that do not
\* compare greater than it.
RECURSIVE InsertSorted(_, _, _)
InsertSorted(sorted, item, direction) ==
    IF sorted = <<>> THEN <<item>>
    ELSE IF Compare(Head(sorted).value, item.value, direction) > 0
         THEN <<item>> \o sorted
         ELSE <<Head(sorted)>> \o InsertSorted(Tail(sorted), item, direction)

RECURSIVE StableSort(_, _)
StableSort(items, direction) ==
    IF items = <<>> THEN <<>>
    ELSE InsertSorted(StableSort(SubSeq(items, 1, Len(items) - 1), direction),
                      items[Len(items)], direction)

\* sortData with a sort that puts records of equal keys in reverse order.
sortDataReversingTies(s, fieldName, direction) ==
    LET n == Len(s.allRecords)
        recordsWithValues ==
            [i \in 1..n |->
                [record |-> s.allRecords[n + 1 - i],
                 value |-> getFieldValue(s.allRecords[n + 1 - i], fieldName)]]
        sorted == StableSort(recordsWithValues, direction)
    IN  [s EXCEPT !.allRecords = [i \in 1..Len(sorted) |-> sorted[i].record]]

\* Calls of getFieldValue one sortData call makes if its comparator extracts
\* the values of the two records it compares.
getFieldValueCallsInComparator(s, fieldName, direction) ==
    Len(s.allRecords) + 2 * Max(0, Len(s.allRecords) - 1)

\* Calls of getFieldValue one sortData call makes: one for each element the
\* map over allRecords visits; the comparator reads the values of its pairs.
getFieldValueCalls(s, fieldName, direction) ==
    LET recordsWithValues ==
            [i \in 1..Len(s.allRecords) |->
                [record |-> s.allRecords[i],
                 value |-> getFieldValue(s.allRecords[i], fieldName)]]
    IN  Len(recordsWithValues)

sortData(s, fieldName, direction) ==
    LET recordsWithValues ==
            [i \in 1..Len(s.allRecords) |->
                [record |-> s.allRecords[i],
                 value |-> getFieldValue(s.allRecords[i], fieldName)]]
        sorted == StableSort(recordsWithValues, direction)
    IN  [s EXCEPT !.allRecords = [i \in 1..Len(sorted) |-> sorted[i].record]]

\* handleSort without its closing updateDisplayedRecords: the rows on
\* display are left as they were before the sort.
handleSortKeepingRows(s, fieldName, direction) ==
    sortData([s EXCEPT !.sortedBy = fieldName, !.sortDirection = direction],
             fieldName, direction)

\* handleSort going back to the first page.
handleSortResettingPage(s, fieldName, direction) ==
    LET s1 == [s EXCEPT !.sortedBy = fieldName, !.sortDirection = direction]
        s2 == sortData(s1, fieldName, direction)
    IN  updateDisplayedRecords([s2 EXCEPT !.currentOffset = 0])

handleSort(s, fieldName, direction) ==
    LET s1 == [s EXCEPT !.sortedBy = fieldName, !.sortDirection = direction]
        currentlyDisplayedCount == Len(s.displayedRecords)
        s2 == sortData(s1, fieldName, direction)
        s3 == [s2 EXCEPT !.currentOffset =
                  Max(0, currentlyDisplayedCount - InitialRecordsToLoad)]
    IN  updateDisplayedRecords(s3)

\* The datatable raises a sort event only while it shows rows.
HandleSort(fieldName, direction) ==
    /\ isInitialized
    /\ displayedRecords # <<>>
    /\ Commit(handleSort(This, fieldName, direction))

(***************************************************************************)
(* Load more, infinite scroll and view all.                                *)
(***************************************************************************)
\* handleViewMore that also asks the server again.
handleViewMoreReloading(s) ==
    LET s1 == [s EXCEPT !.currentOffset = @ + InitialRecordsToLoad]
    IN  loadData([updateDisplayedRecords(s1) EXCEPT !.isLoadingMore = FALSE],
                 FALSE)

handleViewMore(s) ==
    LET s1 == [s EXCEPT !.currentOffset = @ + InitialRecordsToLoad]
    IN  [updateDisplayedRecords(s1) EXCEPT !.isLoadingMore = FALSE]

HandleViewMore ==
    /\ isInitialized
    /\ currentOffset + InitialRecordsToLoad <= MaxOffset
    /\ Commit(handleViewMore(This))

\* String.prototype.trim of the view-all urls configured.
Trim(url) == IF url = " " THEN "" ELSE url

\* handleViewAll that forgets what the server said about further records.
handleViewAllClearingServerMore(s) ==
    IF s.cfg.viewAllUrl # "" /\ Trim(s.cfg.viewAllUrl) # ""
    THEN [s EXCEPT !.navigations = 1]
    ELSE IF Len(s.allRecords) > 0
         THEN [s EXCEPT !.displayedRecords = s.allRecords,
                        !.hasMoreRecords = FALSE,
                        !.serverHasMoreRecords = FALSE]
         ELSE s

handleViewAll(s) ==
    IF s.cfg.viewAllUrl # "" /\ Trim(s.cfg.viewAllUrl) # ""
    THEN [s EXCEPT !.navigations = 1]
    ELSE IF Len(s.allRecords) > 0
         THEN [s EXCEPT !.displayedRecords = s.allRecords,
                        !.hasMoreRecords = FALSE]
         ELSE s

HandleViewAll ==
    /\ isInitialized
    /\ Commit(handleViewAll(This))

\* The scroll event: it returns at once while a load-more is in progress or
\* nothing more is to be shown, and otherwise (re)starts the debounce timer.
\* handleLoadMore without its isLoadingMore guard.
handleLoadMoreWhileLoading(s) ==
    IF ~s.hasMoreRecords
    THEN s
    ELSE [s EXCEPT !.scrollDebounceTimeout = (IF @ > 0 THEN @ - 1 ELSE @) + 1]

\* handleLoadMore without clearTimeout.
handleLoadMoreNoClear(s) ==
    IF s.isLoadingMore \/ ~s.hasMoreRecords
    THEN s
    ELSE [s EXCEPT !.scrollDebounceTimeout = @ + 1]

\* clearTimeout cancels the pending timer, setTimeout starts one.
handleLoadMore(s) ==
    IF s.isLoadingMore \/ ~s.hasMoreRecords
    THEN s
    ELSE [s EXCEPT !.scrollDebounceTimeout = (IF @ > 0 THEN @ - 1 ELSE @) + 1]

HandleLoadMore ==
    /\ isInitialized
    /\ Commit(handleLoadMore(This))

\* A debounce timer fires.
ScrollDebounceFired ==
    /\ scrollDebounceTimeout > 0
    /\ \/ isLoadingMore \/ ~hasMoreRecords
       \/ /\ currentOffset + InitialRecordsToLoad <= MaxOffset
          /\ loadingMoreResets < MaxResetTimers
    /\ LET s == [This EXCEPT !.scrollDebounceTimeout = @ - 1]
       IN  IF s.isLoadingMore \/ ~s.hasMoreRecords
           THEN Commit(s)
           ELSE LET s1 == [s EXCEPT !.isLoadingMore = TRUE,
                                    !.currentOffset = @ + InitialRecordsToLoad]
                IN  Commit([updateDisplayedRecords(s1) EXCEPT
                               !.loadingMoreResets = @ + 1])

\* The 300 ms timer started by the debounced callback fires.
LoadingMoreReset ==
    /\ loadingMoreResets > 0
    /\ Commit([This EXCEPT !.loadingMoreResets = @ - 1,
                           !.isLoadingMore = FALSE])

(***************************************************************************)
(* Delete.                                                                 *)
(***************************************************************************)
RECURSIVE WithoutId(_, _)
WithoutId(records, recordId) ==
    IF records = <<>> THEN <<>>
    ELSE IF Head(records).Id # recordId
         THEN <<Head(records)>> \o WithoutId(Tail(records), recordId)
         ELSE WithoutId(Tail(records), recordId)

\* handleDeleteRecord removing the row before deleteRecord is awaited.
HandleDeleteRecordOptimistic(row) ==
    /\ columns.deleteAction
    /\ row \in 1..Len(displayedRecords)
    /\ pendingDeletes = {}
    /\ LET recordId == displayedRecords[row].Id
           s == [This EXCEPT !.pendingDeletes = {recordId},
                             !.allRecords = WithoutId(@, recordId)]
       IN  Commit(updateDisplayedRecords(s))

\* handleDeleteRecord up to the await of deleteRecord: the row action of a
\* displayed row, offered when the columns carry the delete action.
HandleDeleteRecord(row) ==
    /\ columns.deleteAction
    /\ row \in 1..Len(displayedRecords)
    /\ pendingDeletes = {}
    /\ Commit([This EXCEPT !.pendingDeletes = {displayedRecords[row].Id}])

\* deleteRecord succeeded and only allRecords is filtered.
DeleteResolvedWithoutRefresh(recordId) ==
    /\ recordId \in pendingDeletes
    /\ Commit([This EXCEPT !.pendingDeletes = @ \ {recordId},
                            !.allRecords = WithoutId(@, recordId)])

DeleteResolved(recordId) ==
    /\ recordId \in pendingDeletes
    /\ LET s == [This EXCEPT !.pendingDeletes = @ \ {recordId},
                             !.allRecords = WithoutId(@, recordId)]
       IN  Commit(updateDisplayedRecords(s))

\* deleteRecord failed: a toast, and no change of the component.
DeleteRejected(recordId) ==
    /\ recordId \in pendingDeletes
    /\ Commit([This EXCEPT !.pendingDeletes = @ \ {recordId}])

(***************************************************************************)
(* The controller from construction on: connection, configuration changes, *)
(* render cycles, loads and refreshes.                                     *)
(***************************************************************************)
(***************************************************************************)
(* The actions of the paginated RelatedFiles.                              *)
(***************************************************************************)
RfConnectedCallback ==
    /\ ~rf.connected
    /\ Commit([This EXCEPT !.rf = rfLoadFiles([rf EXCEPT !.connected = TRUE],
                                              FALSE)])

\* getFiles is fulfilled for the request req while the server holds total
\* files: it returns the first req.requestLimit of them.
RfFilesResolved(req, total) ==
    /\ BagIn(req, rf.requests)
    /\ Commit([This EXCEPT !.rf =
           [rfFilesLoaded(rf, req, GetFiles(total, req.requestLimit))
               EXCEPT !.requests = @ (-) SetToBag({req})]])

\* getFiles is rejected, or returns something that is no array.
RfFilesRejected(req) ==
    /\ BagIn(req, rf.requests)
    /\ Commit([This EXCEPT !.rf =
           [rf EXCEPT !.hasError = TRUE, !.isLoading = FALSE,
                      !.requests = @ (-) SetToBag({req})]])

\* A click on View More.
RfHandleViewMore ==
    /\ rf.connected
    /\ BagCardinality(rfHandleViewMore(rf).requests) <= MaxRfInFlight
    /\ Len(rf.files) + computedRecordLimit(rf) <= MaxRfFiles
    /\ Commit([This EXCEPT !.rf = rfHandleViewMore(rf)])

\* uploadFiles has succeeded: the list is loaded again.
RfUploaded ==
    /\ rf.connected
    /\ BagCardinality(rf.requests) < MaxRfInFlight
    /\ Commit([This EXCEPT !.rf = rfLoadFiles(rf, FALSE)])

(***************************************************************************)
(* The actions of RelatedListLWR.                                          *)
(***************************************************************************)
LwrConnectedCallback ==
    /\ ~lwr.connected
    /\ Commit([This EXCEPT !.lwr =
           lwrLoadConfiguration([lwr EXCEPT !.connected = TRUE,
                                            !.pageSize = LwrPageSize,
                                            !.iconPending = TRUE])])

\* getIconName settles: the icon of the object, or the fallback.
LwrIconSettled(ok) ==
    /\ lwr.iconPending
    /\ Commit([This EXCEPT !.lwr =
           [lwr EXCEPT !.iconPending = FALSE,
                       !.actualIconName = IF ok THEN "standard:case"
                                          ELSE "standard:record"]])

\* getObjectConfiguration is fulfilled: loadConfiguration goes on into
\* loadRecords.
LwrConfigResolved ==
    /\ lwr.configPending
    /\ Commit([This EXCEPT !.lwr =
           lwrLoadRecords([lwr EXCEPT !.configPending = FALSE,
                                      !.objectConfig = "config",
                                      !.sortField = LwrColumns[1]])])

LwrConfigRejected ==
    /\ lwr.configPending
    /\ Commit([This EXCEPT !.lwr =
           [lwrHandleError(lwr) EXCEPT !.configPending = FALSE,
                                       !.isLoading = FALSE]])

\* getRelatedRecords is fulfilled for the request req.
LwrRecordsResolved(req) ==
    /\ BagIn(req, lwr.requests)
    /\ Commit([This EXCEPT !.lwr =
           [lwrUpdateDisplayedRecords(
                [lwr EXCEPT !.records = getRelatedRecords(req.sortField,
                                                          req.sortDirection),
                            !.currentPage = 0])
               EXCEPT !.isLoading = FALSE,
                      !.requests = @ (-) SetToBag({req})]])

LwrRecordsRejected(req) ==
    /\ BagIn(req, lwr.requests)
    /\ Commit([This EXCEPT !.lwr =
           [lwrHandleError(lwr) EXCEPT !.isLoading = FALSE,
                                       !.requests = @ (-) SetToBag({req})]])

\* A click on the header of the column fieldName.
LwrHandleSort(fieldName) ==
    /\ lwr.connected
    /\ BagCardinality(lwr.requests) < MaxLwrInFlight
    /\ Commit([This EXCEPT !.lwr = lwrHandleSort(lwr, fieldName)])

LwrHandleViewMore ==
    /\ lwr.connected
    /\ lwr.currentPage < MaxLwrPage
    /\ Commit([This EXCEPT !.lwr = lwrHandleViewMore(lwr)])

LoadConfigs ==
    Configs({NoRecordId, "001x"}, ListTypes, {"", "Name"}, {""}, {FALSE})

\* The component as constructed, with the configuration c of its owner.
Fresh(c) ==
    [configJSONString |-> "{}", cachedConfigObj |-> NullValue,
     lastConfigString |-> "", parseCalls |-> 0,
     configObjResult |-> NotRead,
     cfg |-> c, isInitialized |-> FALSE, detectedObjectType |-> "null",
     allRecords |-> <<>>, displayedRecords |-> <<>>, columns |-> NoColumns,
     isLoading |-> FALSE, isLoadingMore |-> FALSE, error |-> NoError,
     hasData |-> FALSE, hasMoreRecords |-> FALSE,
     serverHasMoreRecords |-> FALSE, currentOffset |-> 0, sortedBy |-> "",
     sortDirection |-> "asc", canDeleteRecords |-> FALSE,
     lastDataSignature |-> NoSignature, lastUISignature |-> NoUiSignature,
     isRefreshing |-> FALSE, cachedUiSignature |-> NoUiSignature,
     lastSignatureInputs |-> [fieldNames |-> "null"],
     scrollDebounceTimeout |-> 0, loadingMoreResets |-> 0,
     inflight |-> EmptyBag, detectPending |-> FALSE, pendingDeletes |-> {},
     navigations |-> 0, cachedConfigGetters |-> NoConfigGetters,
     lastConfigJSONForGetters |-> "", lwr |-> LwrFresh, rf |-> RfFresh,
     cachedRelationshipFieldMap |-> NoFieldMap]

Init == \E c \in LoadConfigs : StateIs(Fresh(c))

\* A fetch settles: fulfilled or rejected.
Settle(mores, deletes) ==
    \E call \in BagToSet(inflight) :
        \/ \E resp \in Responses(call.loader, mores, deletes) :
               FetchResolved(call, resp)
        \/ \E payload \in ErrorPayloads : FetchRejected(call, payload)

\* The owner replaces configJSONString; the record id stays the page's.
Reconfigure(configs) ==
    \E c \in configs : c.recordId = cfg.recordId /\ SetConfig(c)

Next ==
    \/ Reconfigure(LoadConfigs)
    \/ ConnectedCallback
    \/ \E result \in {"Case", "null", "error"} : DetectSettled(result)
    \/ RenderedCallback
    \/ Settle({FALSE}, {FALSE})
    \/ HandleRefresh

Spec == Init /\ [][Next]_vars

(***************************************************************************)
(* Refresh under fair fetches.  The platform answers every Apex call: a    *)
(* fetch that handleRefresh started is fulfilled or rejected in the end,   *)
(* whatever the owner, the renderer and the user do meanwhile.             *)
(***************************************************************************)
RefreshConfigs ==
    Configs({NoRecordId, "001x"}, {"standard", "files"}, {""}, {""}, {FALSE})

InitRefresh == \E c \in RefreshConfigs : StateIs(Fresh(c))

\* A fetch that handleRefresh started settles: the step of Settle that takes
\* its call from the awaited ones, fulfilled or rejected.
SettleRefresh ==
    \E call \in BagToSet(inflight) :
        /\ call.refresh
        /\ inflight' = inflight (-) SetToBag({call})

NextRefresh ==
    \/ Reconfigure(RefreshConfigs)
    \/ ConnectedCallback
    \/ \E result \in {"Case", "null"} : DetectSettled(result)
    \/ RenderedCallback
    \/ Settle({FALSE}, {FALSE})
    \/ HandleRefresh

SpecRefresh ==
    InitRefresh /\ [][NextRefresh]_vars /\ WF_inflight(SettleRefresh)

(***************************************************************************)
(* Standard lists with relationship fields: the owner changes the enabled  *)
(* fields between loads and the server answers with the fields asked for.  *)
(* One fetch is awaited at a time.                                         *)
(***************************************************************************)
EnabledFieldLists == {"", "Owner.Name", "Account.Name", "Owner.Manager.Name"}

FlattenConfigs ==
    {[c EXCEPT !.enabledFields = f] :
        c \in Configs({"001x"}, {"standard"}, {""}, {""}, {FALSE}),
        f \in EnabledFieldLists}

RECURSIVE NestedValue(_, _)
NestedValue(path, value) ==
    IF path = <<>> THEN value
    ELSE [name \in {Head(path)} |-> NestedValue(Tail(path), value)]

\* The records the server returns when `field` is the enabled field: under
\* the dotted key the value of the related object's field, and the related
\* object itself where the record refers to one (every other record).
RelatedRecords(field) ==
    IF ~IncludesDot(field) THEN Backing("standard")
    ELSE [i \in 1..StandardTotal |->
             LET record == Backing("standard")[i]
                 path == SplitKey(field)
                 related == IF i % 2 = 1 THEN {path[1]} ELSE {}
             IN  [name \in DOMAIN record \cup {field} \cup related |->
                     IF name = field THEN KeyOf(i)
                     ELSE IF name \in related
                     THEN NestedValue(Tail(path), KeyOf(i))
                     ELSE record[name]]]

\* What a fulfilled getRelatedListInfo returns to a call: the records with
\* the enabled fields of the call, or no record.
RelationshipResponses(call) ==
    {[fields |-> TRUE, records |-> records, more |-> FALSE,
      canDelete |-> FALSE] :
         records \in {RelatedRecords(call.sig.enabledFields), <<>>}}

InitFlatten == \E c \in FlattenConfigs : StateIs(Fresh(c))

SettleFlatten ==
    \E call \in BagToSet(inflight) :
        \/ \E resp \in RelationshipResponses(call) : FetchResolved(call, resp)
        \/ \E payload \in ErrorPayloads : FetchRejected(call, payload)

NextFlatten ==
    \/ ConnectedCallback
    \/ DetectSettled("Case")
    \/ inflight = EmptyBag /\ Reconfigure(FlattenConfigs)
    \/ inflight = EmptyBag /\ RenderedCallback
    \/ SettleFlatten
    \/ inflight = EmptyBag /\ HandleRefresh

SpecFlatten == InitFlatten /\ [][NextFlatten]_vars

(***************************************************************************)
(* The controller and its pagination: connection, then loads of every list *)
(* type, refresh, load more, view all, sort and delete.  One fetch is      *)
(* awaited at a time here; overlapping loads are the subject of Spec.      *)
(***************************************************************************)
PageConfigs == Configs({"001x"}, ListTypes, {""}, {""}, {TRUE})

InitPage == \E c \in PageConfigs : StateIs(Fresh(c))

\* No fetch is awaited.
Quiet == inflight = EmptyBag

\* Fetches settle in any order; the owner reconfigures, the component
\* renders and the user acts between loads; a delete settles at any time.
NextPage ==
    \/ ConnectedCallback
    \/ DetectSettled("Case")
    \/ Settle(BOOLEAN, {TRUE})
    \/ Quiet /\ Reconfigure(PageConfigs)
    \/ Quiet /\ RenderedCallback
    \/ Quiet /\ HandleRefresh
    \/ Quiet /\ HandleViewMore
    \/ Quiet /\ HandleViewAll
    \/ \E direction \in {"asc", "desc"} : Quiet /\ HandleSort("a", direction)
    \/ \E row \in 1..MaxDeleteRow : Quiet /\ HandleDeleteRecord(row)
    \/ \E recordId \in pendingDeletes : DeleteResolved(recordId)
    \/ \E recordId \in pendingDeletes : DeleteRejected(recordId)

SpecPage == InitPage /\ [][NextPage]_vars

(***************************************************************************)
(* The configuration cache alone: the owner assigns strings and the        *)
(* getters read configObj.                                                 *)
(***************************************************************************)
InitConfig ==
    \E c \in Configs({"001x"}, {"standard"}, {""}, {""}, {FALSE}) :
        StateIs(Fresh(c))

NextConfig ==
    \/ \E raw \in ConfigStrings : SetConfigJSONString(raw)
    \/ ReadConfigObj
    \/ ReadInitialRecordsToLoad
    \/ ReadMaxRecordsToFetch

SpecConfig == InitConfig /\ [][NextConfig]_vars

(***************************************************************************)
(* RelatedListLWR: connection, the configuration and record requests, and  *)
(* clicks on the column headers and on view more.                          *)
(***************************************************************************)
SortConfigs == Configs({"001x"}, {"standard"}, {""}, {""}, {FALSE})

InitLwr == \E c \in SortConfigs : StateIs(Fresh(c))

NextLwr ==
    \/ LwrConnectedCallback
    \/ \E ok \in BOOLEAN : LwrIconSettled(ok)
    \/ LwrConfigResolved
    \/ LwrConfigRejected
    \/ \E req \in BagToSet(lwr.requests) : LwrRecordsResolved(req)
    \/ \E req \in BagToSet(lwr.requests) : LwrRecordsRejected(req)
    \/ \E fieldName \in {"Name", "Status"} : LwrHandleSort(fieldName)
    \/ LwrHandleViewMore

SpecLwr == InitLwr /\ [][NextLwr]_vars

(***************************************************************************)
(* The paginated RelatedFiles: connection, answers of getFiles for any     *)
(* number of files on the server, view more and uploads.                   *)
(***************************************************************************)
RfRecordLimits == {0, 5}

RfServerTotals == {0, 3, InitialLoadBuffer, InitialLoadBuffer + 3, MaxRfFiles}

InitRf ==
    \E c \in SortConfigs : \E recordId \in {"null", "001x"} :
        \E limit \in RfRecordLimits :
            StateIs([Fresh(c) EXCEPT !.rf.recordId = recordId,
                                     !.rf.recordLimit = limit])

NextRf ==
    \/ RfConnectedCallback
    \/ \E req \in BagToSet(rf.requests) : \E total \in RfServerTotals :
           RfFilesResolved(req, total)
    \/ \E req \in BagToSet(rf.requests) : RfFilesRejected(req)
    \/ RfHandleViewMore
    \/ RfUploaded

SpecRf == InitRf /\ [][NextRf]_vars

(***************************************************************************)
(* Infinite scroll on a standard list: scroll triggers, the debounce timer *)
(* and the timer that clears isLoadingMore, next to the load more and view *)
(* all buttons and refresh.                                                *)
(***************************************************************************)
ScrollConfigs ==
    Configs({"001x"}, {"standard"}, {""}, {"", " ", "/cases"}, {FALSE})

InitScroll == \E c \in ScrollConfigs : StateIs(Fresh(c))

NextScroll ==
    \/ ConnectedCallback
    \/ DetectSettled("Case")
    \/ Settle(BOOLEAN, {FALSE})
    \/ Quiet /\ HandleRefresh
    \/ HandleLoadMore
    \/ ScrollDebounceFired
    \/ LoadingMoreReset
    \/ HandleViewMore
    \/ HandleViewAll
    \/ \E direction \in {"asc", "desc"} : HandleSort("a", direction)

SpecScroll == InitScroll /\ [][NextScroll]_vars

(***************************************************************************)
(* Sorting: a standard list is loaded with any short list of records and   *)
(* sorted by its fields in both directions.                                *)
(***************************************************************************)
SortKeys == {Null, Throws} \cup (1..MaxSortKey)

\* What a record holds for its relationship Owner: nothing, a container
\* without the nested field b, or a container with b.
NestedLists ==
    LET owners == {[c |-> 1], [b |-> 0], [b |-> 1], [b |-> 2]}
        records(i) ==
            {[Id |-> i, a |-> Null]}
                \cup {[Id |-> i, a |-> Null, Owner |-> o] : o \in owners}
    IN  {<<r>> : r \in records(1)}
            \cup {<<r, q>> : r \in records(1), q \in records(2)}

\* The lists the server may return: a record's Id is its place in the list.
SortInputs ==
    UNION {{[i \in 1..n |-> [Id |-> i, a |-> keys[i]]] :
                keys \in [1..n -> SortKeys]} : n \in 1..MaxSortLen}

InitSort == \E c \in SortConfigs : StateIs(Fresh(c))

NextSort ==
    \/ ConnectedCallback
    \/ DetectSettled("Case")
    \/ \E call \in BagToSet(inflight) :
           \E records \in SortInputs \cup NestedLists :
               FetchResolved(call, [fields |-> TRUE, records |-> records,
                                    more |-> FALSE, canDelete |-> FALSE])
    \/ \E fieldName \in {"a", "Id", "Owner.b"} :
           \E direction \in {"asc", "desc"} :
               HandleSort(fieldName, direction)

SpecSort == InitSort /\ [][NextSort]_vars

(***************************************************************************)
(* Properties.                                                             *)
(***************************************************************************)
\* The step is the continuation of loadData for `call`.
Settles(call) == inflight' = inflight (-) SetToBag({call})

\* The step is a load whose fetch was fulfilled with field information.
SuccessfulLoad ==
    \E call \in BagToSet(inflight) :
        \E resp \in Responses(call.loader, BOOLEAN, BOOLEAN) :
            resp.fields /\ FetchResolved(call, resp)

\* The step is a load whose fetch was rejected.
FailedFetch ==
    \E call \in BagToSet(inflight) :
        \E payload \in ErrorPayloads : FetchRejected(call, payload)

IsPrefix(p, q) == Len(p) <= Len(q) /\ p = SubSeq(q, 1, Len(p))

\* C1: the response to a fetch issued under a data signature that is no
\* longer the current one is discarded when it arrives: allRecords, columns
\* and lastDataSignature stay as they were.
C1_StaleResponseDiscarded ==
    [][\A call \in BagToSet(inflight) :
          (Settles(call) /\ call.sig # dataSignature(This))
              => /\ allRecords' = allRecords
                 /\ columns' = columns
                 /\ lastDataSignature' = lastDataSignature]_vars

\* C2: a render cycle that finds the data signature equal to
\* lastDataSignature (only the UI signature can differ) starts no fetch.
C2_DisplayChangeNeverFetches ==
    [][(RenderedCallback /\ dataSignature(This) = lastDataSignature)
          => inflight' = inflight]_vars

\* C3: a render cycle that runs while the fetch for the current data
\* signature is still awaited (lastDataSignature not yet updated) starts no
\* second fetch: one change of the data signature, one fetch.
C3_OneFetchPerDataChange ==
    [][(/\ RenderedCallback
        /\ \E call \in BagToSet(inflight) :
               ~call.refresh /\ call.sig = dataSignature(This))
          => inflight' = inflight]_vars

\* C4: when the fetch of a load fails, whatever the list type, the
\* controller ends with an error message, no records, hasData false and
\* isLoading false.
C4_FailedFetchShowsErrorOnly ==
    [][FailedFetch
          => /\ error' \notin {NoError, ""}
             /\ allRecords' = <<>>
             /\ displayedRecords' = <<>>
             /\ ~hasData'
             /\ ~isLoading']_vars

\* C5: hasMoreRecords is true exactly when fewer records are displayed than
\* held or the server reported more.
C5_HasMoreIffUndisplayedOrServerMore ==
    hasMoreRecords <=>
        (Len(displayedRecords) < Len(allRecords) \/ serverHasMoreRecords)

\* C6: a successful load displays min(page size, total) records and each
\* handleViewMore raises the displayed count by the page size, clamped to
\* the total; after either, hasMoreRecords tells whether records are left
\* undisplayed or on the server.
C6_LoadThenPageByPage ==
    [][/\ SuccessfulLoad =>
              Len(displayedRecords') =
                  Min(InitialRecordsToLoad, Len(allRecords'))
       /\ HandleViewMore =>
              Len(displayedRecords') =
                  Min(Len(displayedRecords) + InitialRecordsToLoad,
                      Len(allRecords))
       /\ (SuccessfulLoad \/ HandleViewMore) =>
              (hasMoreRecords' <=>
                  (Len(displayedRecords') < Len(allRecords')
                      \/ serverHasMoreRecords'))]_vars

\* C7: load more, view all and sort never make displayedRecords shorter.
C7_DisplayedCountNeverDecreases ==
    [][(\/ HandleViewMore
        \/ HandleViewAll
        \/ \E direction \in {"asc", "desc"} : HandleSort("a", direction))
          => Len(displayedRecords') >= Len(displayedRecords)]_vars

\* C8: with every held record displayed and serverHasMoreRecords false,
\* handleViewMore and handleViewAll leave displayedRecords and
\* hasMoreRecords as they are.
C8_CompleteIsTerminal ==
    [][(/\ Len(displayedRecords) = Len(allRecords)
        /\ ~serverHasMoreRecords
        /\ (HandleViewMore \/ HandleViewAll))
          => /\ displayedRecords' = displayedRecords
             /\ hasMoreRecords' = hasMoreRecords]_vars

\* C9: displayedRecords is a prefix of allRecords in every reachable state.
C9_DisplayedIsPrefix == IsPrefix(displayedRecords, allRecords)

\* C9 witness: a standard list, sorted descending, from which a record was
\* deleted, with some records displayed and some left undisplayed.
C9_Witness ==
    /\ columns.kind = "arl"
    /\ sortedBy = "a"
    /\ sortDirection = "desc"
    /\ Len(allRecords) = StandardTotal - 1
    /\ Len(displayedRecords) > 0
    /\ Len(displayedRecords) < Len(allRecords)

\* C10: every successful load resets currentOffset and displays the first
\* page only, and while the record set stays the same the displayed count
\* changes only by load more, view all or sort.
C10_PaginationResetsOnLoad ==
    [][/\ SuccessfulLoad =>
              /\ currentOffset' = 0
              /\ Len(displayedRecords') =
                     Min(InitialRecordsToLoad, Len(allRecords'))
       /\ (/\ allRecords' = allRecords
           /\ Len(displayedRecords') # Len(displayedRecords))
              => \/ HandleViewMore
                 \/ HandleViewAll
                 \/ \E direction \in {"asc", "desc"} :
                        HandleSort("a", direction)]_vars

\* C11: while configJSONString holds one string JSON.parse is called at most
\* once for it, and the first read after configJSONString was assigned a
\* different string calls JSON.parse.
C11_ParsedOncePerString ==
    [][ReadConfigObj => /\ parseCalls' <= 1
                        /\ parseCalls = 0 => parseCalls' = 1]_vars

\* C12: whenever configJSONString is well-formed JSON, configObj returns the
\* parse of that string.
C12_ReturnsParseOfCurrentString ==
    (configObjResult # NotRead /\ JsonParse(configJSONString).ok)
        => configObjResult = JsonParse(configJSONString).value

\* C13: configObj returns an object for every configJSONString, the empty
\* object when the string does not parse.
C13_AlwaysAnObject ==
    configObjResult # NotRead
        => /\ configObjResult.kind = "object"
           /\ ~JsonParse(configJSONString).ok
                  => configObjResult = EmptyObject

\* The component with one data-relevant input set to value.
WithDataInput(s, input, value) ==
    CASE input = "recordId" -> [s EXCEPT !.cfg.recordId = value]
      [] input = "relatedListName" -> [s EXCEPT !.cfg.relatedListName = value]
      [] input = "relationshipField" ->
             [s EXCEPT !.cfg.relationshipField = value]
      [] input = "enabledFields" -> [s EXCEPT !.cfg.enabledFields = value]
      [] input = "detectedObjectType" ->
             [s EXCEPT !.detectedObjectType = value]
      [] OTHER -> [s EXCEPT !.cfg.relatedListType = value]

DataInputValues(input) ==
    CASE input = "recordId" -> {"001x", "002x"}
      [] input = "relatedListName" -> {"Cases", "Contacts"}
      [] input = "relationshipField" -> {"", "ParentId"}
      [] input = "enabledFields" -> {"", "Subject"}
      [] input = "detectedObjectType" -> {"Case", "Account"}
      [] OTHER -> ListTypes

\* The component with one display-only input set to value.
WithUiInput(s, input, value) ==
    IF input = "fieldNames"
    THEN [s EXCEPT !.cfg.fieldNames = value]
    ELSE [s EXCEPT !.cfg.viewAllUrl = value]

\* C14: after the signatures were read, a change of one data-relevant input
\* alone makes the next read of dataSignature differ and the next read of
\* uiSignature equal; without a change dataSignature reads the same.
C14_DataInputChangesDataSignatureOnly ==
    LET before == uiSignature(This)
    IN  /\ dataSignature(before) = dataSignature(This)
        /\ \A input \in {"recordId", "relatedListName", "relationshipField",
                         "enabledFields", "detectedObjectType",
                         "relatedListType"} :
               \A value \in DataInputValues(input) :
                   LET after == WithDataInput(before, input, value)
                   IN  after # before =>
                           /\ dataSignature(after) # dataSignature(before)
                           /\ uiSignature(after).cachedUiSignature
                                  = before.cachedUiSignature

\* C15: after the signatures were read, a change of one display-only input
\* alone makes the next read of uiSignature differ and the next read of
\* dataSignature equal, and what uiSignature returns is the serialization
\* of the current inputs.
C15_UiInputChangesUiSignatureOnly ==
    LET before == uiSignature(This)
    IN  /\ before.cachedUiSignature =
               [fieldNames |-> cfg.fieldNames, viewAllUrl |-> cfg.viewAllUrl,
                relatedListLabel |-> relatedListLabel(This)]
        /\ \A input \in {"fieldNames", "viewAllUrl"} :
               \A value \in {"", "Name", "/cases"} :
                   LET after == WithUiInput(before, input, value)
                   IN  after # before =>
                           /\ uiSignature(after).cachedUiSignature
                                  # before.cachedUiSignature
                           /\ dataSignature(after) = dataSignature(before)

\* C16: while the loadData call of a manual refresh is awaited, a render
\* cycle starts no fetch.
C16_NoAutomaticLoadDuringRefresh ==
    [][(/\ RenderedCallback
        /\ \E call \in BagToSet(inflight) : call.refresh)
          => inflight' = inflight]_vars

\* C17: a scroll trigger that arrives while isLoadingMore is true starts no
\* timer and changes neither currentOffset nor displayedRecords.
C17_TriggerIgnoredWhileLoadingMore ==
    [][(isLoadingMore /\ HandleLoadMore)
          => /\ scrollDebounceTimeout' = scrollDebounceTimeout
             /\ currentOffset' = currentOffset
             /\ displayedRecords' = displayedRecords]_vars

\* C17 witness: the debounced callback has advanced the list, isLoadingMore
\* is still set, more records could be shown and no timer is pending.
C17_Witness ==
    /\ isLoadingMore
    /\ loadingMoreResets > 0
    /\ hasMoreRecords
    /\ currentOffset > 0
    /\ scrollDebounceTimeout = 0

\* C18: a scroll trigger never advances the list itself and leaves one timer
\* pending however many came before it; when the timer fires none is left
\* and currentOffset has grown by one page if hasMoreRecords was true, and
\* not at all if it was false.
C18_BurstAdvancesOnce ==
    [][/\ HandleLoadMore =>
              /\ currentOffset' = currentOffset
              /\ scrollDebounceTimeout' <= 1
       /\ ScrollDebounceFired =>
              /\ scrollDebounceTimeout' = 0
              /\ currentOffset' =
                     IF hasMoreRecords
                     THEN currentOffset + InitialRecordsToLoad
                     ELSE currentOffset]_vars

\* C18 witness: the timer of a burst has fired and advanced a list of which
\* two pages were displayed; no timer is pending.
C18_Witness ==
    /\ isLoadingMore
    /\ loadingMoreResets > 0
    /\ scrollDebounceTimeout = 0
    /\ currentOffset = 2 * InitialRecordsToLoad
    /\ Len(displayedRecords) > 2 * InitialRecordsToLoad

\* Place of a record in a list that holds it.
PlaceIn(records, record) ==
    CHOOSE k \in 1..Len(records) : records[k] = record

\* C19: a sorted list is ordered by the key of the sorted field: ascending,
\* null keys first and the other keys non-decreasing; descending, the other
\* keys non-increasing and null keys last.
C19_SortedByKeyNullsFirstAscending ==
    sortedBy # "" =>
        \A i, j \in 1..Len(allRecords) :
            i < j =>
                LET ki == getFieldValue(allRecords[i], sortedBy)
                    kj == getFieldValue(allRecords[j], sortedBy)
                IN  IF sortDirection = "asc"
                    THEN ki = Null \/ (kj # Null /\ ki <= kj)
                    ELSE kj = Null \/ (ki # Null /\ ki >= kj)

\* C19 witness: the list a = 3, 1, null, 2 sorted descending.
C19_Witness ==
    /\ sortedBy = "a"
    /\ sortDirection = "desc"
    /\ allRecords = <<[Id |-> 1, a |-> 3], [Id |-> 4, a |-> 2],
                      [Id |-> 2, a |-> 1], [Id |-> 3, a |-> Null]>>

\* C20: a sort keeps every record, once and as it was, and keeps records of
\* equal keys in the order they had.
C20_SortIsStablePermutation ==
    [][\A fieldName \in {"a", "Id"} : \A direction \in {"asc", "desc"} :
          HandleSort(fieldName, direction) =>
              /\ Len(allRecords') = Len(allRecords)
              /\ \A i \in 1..Len(allRecords) :
                     \E k \in 1..Len(allRecords') :
                         allRecords'[k] = allRecords[i]
              /\ \A i, j \in 1..Len(allRecords) :
                     (/\ i < j
                      /\ Compare(getFieldValue(allRecords[i], fieldName),
                                 getFieldValue(allRecords[j], fieldName),
                                 direction) = 0)
                         => PlaceIn(allRecords', allRecords[i])
                                < PlaceIn(allRecords', allRecords[j])]_vars

\* C20 witness: the list a = 2, null, 2, null sorted ascending, the records
\* of equal keys in their first order.
C20_Witness ==
    /\ sortedBy = "a"
    /\ sortDirection = "asc"
    /\ allRecords = <<[Id |-> 2, a |-> Null], [Id |-> 4, a |-> Null],
                      [Id |-> 1, a |-> 2], [Id |-> 3, a |-> 2]>>

\* The key of field a a record is sorted by when the read of a throws.
KeyOrNull(record) == IF record.a = Throws THEN Null ELSE record.a

C22_NestedValueReturnedWhenPresent ==
    \A i \in 1..Len(allRecords) :
        getFieldValue(allRecords[i], "Owner.b") =
            IF /\ "Owner" \in DOMAIN allRecords[i]
               /\ "b" \in DOMAIN allRecords[i].Owner
            THEN allRecords[i].Owner.b
            ELSE Null

ConfiguredOr(raw, key, default) ==
    LET obj == JsonParse(raw).value
    IN  IF \E e \in obj.entries : e[1] = key
        THEN (CHOOSE e \in obj.entries : e[1] = key)[2]
        ELSE default

\* C30: once the getters have been read for the current well-formed string,
\* initialRecordsToLoad and maxRecordsToFetch are the values that string
\* configures, 6 and 50 where it has no such key.
C30_GettersReturnCurrentConfig ==
    (/\ lastConfigJSONForGetters = configJSONString
     /\ JsonParse(configJSONString).ok)
        => /\ cachedConfigGetters.initialRecordsToLoad =
                  ConfiguredOr(configJSONString, "initialRecordsToLoad", 6)
           /\ cachedConfigGetters.maxRecordsToFetch =
                  ConfiguredOr(configJSONString, "maxRecordsToFetch", 50)

\* C24: a delete that is awaited or has failed leaves allRecords,
\* displayedRecords, currentOffset and hasMoreRecords as they were; the record
\* leaves allRecords in the step in which deleteRecord succeeds.
C24_FailedDeleteChangesNothing ==
    [][/\ ((\E row \in 1..MaxOffset : HandleDeleteRecord(row))
              \/ (\E recordId \in pendingDeletes : DeleteRejected(recordId)))
           => UNCHANGED <<allRecords, displayedRecords, currentOffset,
                          hasMoreRecords>>
       /\ \A recordId \in pendingDeletes :
              DeleteResolved(recordId) =>
                  \A i \in 1..Len(allRecords') :
                      allRecords'[i].Id # recordId]_vars

\* C24 witness: deleteRecord is awaited for a displayed record and the record
\* is still held and displayed.
C24_Witness ==
    /\ pendingDeletes # {}
    /\ \E i \in 1..Len(displayedRecords) :
           displayedRecords[i].Id \in pendingDeletes
    /\ \E i \in 1..Len(allRecords) : allRecords[i].Id \in pendingDeletes
    /\ Len(allRecords) > Len(displayedRecords)

\* C26: view all without a url shows all of allRecords and leaves allRecords,
\* serverHasMoreRecords, the sort state and the columns unchanged; with a url
\* it navigates and leaves the pagination state unchanged.
C26_ViewAllFrame ==
    [][HandleViewAll =>
          IF Trim(cfg.viewAllUrl) = ""
          THEN /\ displayedRecords' = allRecords
               /\ navigations' = navigations
               /\ UNCHANGED <<allRecords, serverHasMoreRecords, sortedBy,
                              sortDirection, columns>>
          ELSE /\ navigations' = 1
               /\ UNCHANGED <<allRecords, displayedRecords, currentOffset,
                              hasMoreRecords, serverHasMoreRecords>>]_vars

\* C26 witness: all records are shown in the table after view all without a
\* url, while the server has more.
C26_Witness ==
    /\ Trim(cfg.viewAllUrl) = ""
    /\ displayedRecords = allRecords
    /\ Len(allRecords) > InitialRecordsToLoad
    /\ currentOffset = 0
    /\ serverHasMoreRecords
    /\ ~hasMoreRecords
    /\ navigations = 0

\* C27: a sort, a load more and a scroll trigger start no fetch and leave
\* lastDataSignature and lastUISignature unchanged.
C27_LocalOperationsNeverFetch ==
    [][(\/ \E direction \in {"asc", "desc"} : HandleSort("a", direction)
        \/ HandleViewMore
        \/ HandleLoadMore
        \/ ScrollDebounceFired)
          => UNCHANGED <<inflight, lastDataSignature, lastUISignature>>]_vars

\* C27 witness: a loaded list was sorted and paged further and no fetch is
\* in flight.
C27_Witness ==
    /\ hasData
    /\ sortedBy = "a"
    /\ currentOffset > 0
    /\ Len(displayedRecords) > InitialRecordsToLoad
    /\ inflight = EmptyBag
    /\ lastDataSignature = dataSignature(This)

\* The messages error holds after a failed load.
LoadErrors == {ErrorMessage(payload) : payload \in ErrorPayloads}

\* C25: a load whose fetch is fulfilled leaves no failed load's message in
\* error, isLoading false and the leading fetched records displayed,
\* whatever load failed before it.
C25_SuccessfulLoadRecovers ==
    [][\A call \in BagToSet(inflight) :
          \A resp \in Responses(call.loader, BOOLEAN, BOOLEAN) :
              (resp.fields /\ FetchResolved(call, resp))
                  => /\ error' \notin LoadErrors
                     /\ ~isLoading'
                     /\ IsPrefix(displayedRecords', resp.records)
                     /\ Len(resp.records) > 0 => Len(displayedRecords') > 0]_vars

\* C29: a render that finds both the data signature and the UI signature
\* changed makes the one loadData call of the data path, and does not
\* evaluate the column path.
C29_DataPathOnly ==
    [][(/\ RenderedCallback
        /\ isInitialized
        /\ ~isRefreshing
        /\ hasData
        /\ shouldReloadData(This)
        /\ uiSignature(This).cachedUiSignature # lastUISignature)
          => /\ inflight' = loadData(This, FALSE).inflight
             /\ BagCardinality(inflight') <= BagCardinality(inflight) + 1
             /\ cachedUiSignature' = cachedUiSignature]_vars

\* C29 witness: the records of the previous configuration are held, both
\* signatures differ from the recorded ones and the one fetch in flight is
\* for the current data signature.
C29_Witness ==
    /\ isInitialized
    /\ ~isRefreshing
    /\ hasData
    /\ isLoading
    /\ shouldReloadData(This)
    /\ uiSignature(This).cachedUiSignature # lastUISignature
    /\ lastDataSignature # NoSignature
    /\ inflight = SetToBag({[loader |-> LoaderOf(This),
                             sig |-> dataSignature(This),
                             refresh |-> FALSE]})

\* C28: when every request of RelatedListLWR has settled and none has
\* failed, records holds the response to the last request, the one for the
\* sort the component is set to.
C28_RecordsOfLastRequest ==
    (/\ lwr.objectConfig # "null"
     /\ lwr.requests = EmptyBag
     /\ ~lwr.configPending
     /\ ~lwr.hasError)
        => lwr.records = getRelatedRecords(lwr.sortField, lwr.sortDirection)

\* C31: the paginated RelatedFiles never displays more files than it holds,
\* and a click on View More asks the server only when every file held is
\* displayed and hasMoreFilesToLoad is true; otherwise it raises
\* currentDisplayCount by the record limit, clamped to files.length, and
\* asks for nothing.
C31_ViewMoreFetchesOnlyWhenAllShown ==
    /\ [](rf.currentDisplayCount <= Len(rf.files))
    /\ [][RfHandleViewMore =>
             IF Len(rf.files) <= rf.currentDisplayCount
                    /\ rf.hasMoreFilesToLoad
             THEN /\ BagCardinality(rf'.requests) =
                         BagCardinality(rf.requests) + 1
                  /\ rf'.currentDisplayCount = rf.currentDisplayCount
             ELSE /\ rf'.requests = rf.requests
                  /\ rf'.files = rf.files
                  /\ rf'.currentDisplayCount =
                         Min(rf.currentDisplayCount + computedRecordLimit(rf),
                             Len(rf.files))]_vars

\* C31 witness: after a load more from the server every file held is
\* displayed, more than the first load asks for.
C31_Witness ==
    /\ rf.currentDisplayCount = Len(rf.files)
    /\ Len(rf.files) > InitialLoadBuffer
    /\ rf.requests = EmptyBag
    /\ ~rf.hasError

\* C32: isLoading is true in every state in which a fetch started by
\* loadData has not settled.
C32_LoadingWhileFetchInFlight ==
    inflight # EmptyBag => isLoading

\* C33: a sort leaves the number of displayed records as it was, and the
\* displayed records are the first that many of the sorted allRecords.
C33_SortKeepsDisplayedCount ==
    [][\A direction \in {"asc", "desc"} :
          HandleSort("a", direction) =>
              /\ Len(displayedRecords') = Len(displayedRecords)
              /\ Len(displayedRecords) <= Len(allRecords')
              /\ displayedRecords' =
                     SubSeq(allRecords', 1, Len(displayedRecords))]_vars

\* C33 witness: a list paged beyond its first page is sorted ascending and
\* still shows more than the first page and less than all.
C33_Witness ==
    /\ sortedBy = "a"
    /\ sortDirection = "asc"
    /\ Len(displayedRecords) > InitialRecordsToLoad
    /\ Len(displayedRecords) < Len(allRecords)
    /\ currentOffset = Len(displayedRecords) - InitialRecordsToLoad
    /\ \A i \in 1..(Len(allRecords) - 1) :
           Compare(allRecords[i].a, allRecords[i + 1].a, "asc") <= 0

\* C34: after a standard, files or articles load whose fetch is fulfilled,
\* serverHasMoreRecords is true only if that response reported more records
\* on the server, and hasMoreRecords only if it did or records are held that
\* are not displayed.
C34_ServerMoreReflectsLastLoad ==
    [][\A call \in BagToSet(inflight) :
          \A resp \in Responses(call.loader, BOOLEAN, BOOLEAN) :
              (/\ call.loader \in {"standard", "files", "articles"}
               /\ resp.fields
               /\ FetchResolved(call, resp))
                  => /\ serverHasMoreRecords' => resp.more
                     /\ hasMoreRecords' =>
                            \/ resp.more
                            \/ Len(displayedRecords') < Len(allRecords')]_vars

\* C35: whenever sortedBy is set, each record of allRecords compares no
\* greater than the next by the field and direction the sort indicator shows.
C35_SortIndicatorMatchesOrder ==
    sortedBy # "" =>
        \A i \in 1..(Len(allRecords) - 1) :
            Compare(getFieldValue(allRecords[i], sortedBy),
                    getFieldValue(allRecords[i + 1], sortedBy),
                    sortDirection) <= 0

\* C36: when deleteRecord succeeds for an id, allRecords loses the records of
\* that id and keeps the others in their order, currentOffset stays, and
\* displayedRecords, hasData and hasMoreRecords are those of the new set.
C36_DeleteRemovesAndRecomputes ==
    [][\A recordId \in pendingDeletes :
          DeleteResolved(recordId) =>
              /\ allRecords' =
                     SelectSeq(allRecords, LAMBDA r : r.Id # recordId)
              /\ currentOffset' = currentOffset
              /\ displayedRecords' =
                     SubSeq(allRecords', 1,
                            Min(currentOffset + InitialRecordsToLoad,
                                Len(allRecords')))
              /\ hasData' = (Len(allRecords') > 0)
              /\ hasMoreRecords' =
                     (\/ currentOffset + InitialRecordsToLoad
                            < Len(allRecords')
                      \/ serverHasMoreRecords)]_vars

\* C36 witness: the last record of a loaded list has been deleted.
C36_Witness ==
    /\ columns.deleteAction
    /\ allRecords = <<>>
    /\ displayedRecords = <<>>
    /\ ~hasData
    /\ pendingDeletes = {}
    /\ error = NoError

\* C37: every handleRefresh is followed by a state in which isRefreshing is
\* false: the load it started settles, fulfilled or rejected, and clears the
\* flag, and a refresh under an invalid configuration clears it at once.
C37_RefreshEventuallyClears == isRefreshing ~> ~isRefreshing

\* C37 witness: of two overlapping refreshes the fetch of one was rejected
\* and cleared the flag, the fetch of the other is still awaited.
C37_Witness ==
    /\ ~isRefreshing
    /\ error \in LoadErrors
    /\ \E call \in BagToSet(inflight) : call.refresh

\* C38: when a standard load is fulfilled with records, every record of
\* allRecords has the flattened key of every dotted key of the response's
\* first record, and the cached relationship-field map is the map of that
\* response's dotted keys.
C38_FlattenedKeysOfThisResponse ==
    [][\A call \in BagToSet(inflight) :
          \A resp \in RelationshipResponses(call) :
              (Len(resp.records) > 0 /\ FetchResolved(call, resp))
                  => LET dotted == {key \in DOMAIN resp.records[1] :
                                       IncludesDot(key)}
                     IN  /\ \A i \in 1..Len(allRecords') :
                                \A key \in dotted :
                                    getFlattenedFieldName(key)
                                        \in DOMAIN allRecords'[i]
                         /\ {mapping.originalKey :
                                mapping \in cachedRelationshipFieldMap'.map}
                                = dotted]_vars

====
